---- MODULE Spec2Model ----
(***************************************************************************)
(* State-machine model of src/app.py: the MarkdownViewer window.  The      *)
(* window is single-threaded and event driven; every slot runs to          *)
(* completion, so each slot is one action.                                 *)
(*                                                                         *)
(* Text is a sequence of units: "\n" is a line feed, every other unit is   *)
(* a (possibly multi-character) run without line terminators.  File        *)
(* contents are sequences of byte units: "\n", "\r", "0xFF" (a byte that   *)
(* is not valid UTF-8) or an ASCII run.                                    *)
(***************************************************************************)
EXTENDS Integers, Sequences, FiniteSets, TLC

VARIABLES
    editor,             \* self.editor.toPlainText()
    preview,            \* the HTML last given to self.preview.setHtml
    current_file_path,  \* self.current_file_path
    is_dark_mode,       \* self.is_dark_mode
    checked,            \* self.dark_mode_action.isChecked()
    styleSheet,         \* the stylesheet last given to self.setStyleSheet
    windowTitle,        \* the title last given to self.setWindowTitle
    themes,             \* self.light_theme, self.dark_theme
    fs,                 \* the files the dialogs can name
    slot,               \* the slot that ran last (observation)
    dialog,             \* the file dialog it presented and what that returned
    io,                 \* the file it read or wrote and how that ended
    savedAs,            \* history: text of the standing Save As of each path
    beforeToggles       \* history: theme state before each of the latest
                        \* toggles in a row (at most two)

vars == <<editor, preview, current_file_path, is_dark_mode, checked,
          styleSheet, windowTitle, themes, fs, slot, dialog, io, savedAs,
          beforeToggles>>

----------------------------------------------------------------------------
(* Bounds and the environment *)

MaxLen == 3

\* the units of an editor text: toPlainText() gives every line end as "\n"
\* (Qt keeps line ends of inserted text as block separators, never as "\r")
TextUnits == {"a", "\n"}

\* the texts a user can leave in the editor
Texts == UNION {[1..n -> TextUnits] : n \in 0..MaxLen}

\* the files a dialog can name
Paths == {"notes.md", "new.md", "locked.md"}

\* what a file dialog returns: a path, or "" when it is cancelled
DialogResults == Paths \cup {""}

\* files the process may create or truncate
Writable == {"new.md"}

\* file system at startup: notes.md is read-only and has CRLF and CR line
\* ends, new.md does not exist, locked.md is read-only and is not UTF-8
InitialFs ==
    [p \in Paths |->
        CASE p = "notes.md"  -> [exists |-> TRUE,
                                 bytes |-> <<"a", "\r", "\n", "a", "\r">>]
          [] p = "new.md"    -> [exists |-> FALSE, bytes |-> <<>>]
          [] p = "locked.md" -> [exists |-> TRUE, bytes |-> <<"0xFF">>]]

None == "None"

----------------------------------------------------------------------------
(* AppConfig *)

window_title == "Joe's Markdown Viewer"

\* the document __init__ puts in the editor, one unit per line and line feed
\* (a string of this language cannot hold a backquote: the fence is spelled out)
Placeholder ==
    <<"[3 backquotes]python", "\n",
      "# Type your markdown here!", "\n",
      "# Syntax highlighting is now active.", "\n",
      "def hello(name):", "\n",
      "    print(f'Hello, {name}!')", "\n",
      "\n",
      "hello('World')", "\n",
      "[3 backquotes]", "\n",
      "\n",
      "| Header 1 | Header 2 |", "\n",
      "|----------|----------|", "\n",
      "| Cell 1   | Cell 2   |", "\n",
      "\n",
      "- Tables", "\n",
      "- ~~Strike-through~~", "\n",
      "- And more!", "\n">>

----------------------------------------------------------------------------
(* Themes *)

\* Theme(pygments_css, html_css, app_stylesheet)
Theme(pygments_css, html_css, app_stylesheet) ==
    [pygments_css |-> pygments_css, html_css |-> html_css,
     app_stylesheet |-> app_stylesheet]

\* HtmlFormatter is the pygments class, or None when the import failed
_create_themes(HtmlFormatter) ==
    [light_theme |->
        Theme(IF HtmlFormatter THEN "default.codehilite" ELSE "",
              "light_html_css", "light_app_stylesheet"),
     dark_theme |->
        Theme(IF HtmlFormatter THEN "monokai.codehilite" ELSE "",
              "dark_html_css", "dark_app_stylesheet")]

\* theme = self.dark_theme if self.is_dark_mode else self.light_theme
ActiveTheme(th, dark) == IF dark THEN th.dark_theme ELSE th.light_theme

----------------------------------------------------------------------------
(* Preview *)

\* the external converter: a deterministic function of the text alone
convert(markdown_text) ==
    [converter |-> "markdown2",
     extras |-> <<"fenced-code-blocks", "tables", "strike">>,
     text |-> markdown_text]

\* the HTML _update_preview gives to the preview for a text and a theme
_update_preview(markdown_text, theme) ==
    <<"<html><head><style>", "/* Shared Styles */",
      "/* Theme-specific styles */", theme.pygments_css, theme.html_css,
      "</style></head><body>", convert(markdown_text),
      "</body></html>">>

----------------------------------------------------------------------------
(* Window title *)

\* Python truth value of a path: None and "" are false
Truthy(path) == path # None /\ path # ""

\* slip: the title is prefixed even when no path is set
_update_window_title_unconditional(path) ==
    path \o " - " \o window_title

_update_window_title(path) ==
    IF Truthy(path) THEN path \o " - " \o window_title ELSE window_title

----------------------------------------------------------------------------
(* Files: open(file_path, mode, encoding="utf-8") with f.read(), f.write() *)

\* bytes.decode("utf-8") raises on a byte that is not UTF-8
Decodable(bytes) == \A i \in 1..Len(bytes) : bytes[i] # "0xFF"

\* reading in text mode with newline=None: "\r\n" and "\r" become "\n"
RECURSIVE UniversalNewlines(_)
UniversalNewlines(s) ==
    IF s = <<>> THEN <<>>
    ELSE IF s[1] = "\r"
         THEN IF Len(s) >= 2 /\ s[2] = "\n"
              THEN <<"\n">> \o UniversalNewlines(SubSeq(s, 3, Len(s)))
              ELSE <<"\n">> \o UniversalNewlines(Tail(s))
         ELSE <<s[1]>> \o UniversalNewlines(Tail(s))

\* os.linesep of the platform (POSIX)
os_linesep == <<"\n">>

\* writing in text mode with newline=None: "\n" becomes os.linesep; the
\* units of a text are ASCII runs and encode to themselves
RECURSIVE EncodeText(_)
EncodeText(text) ==
    IF text = <<>> THEN <<>>
    ELSE (IF text[1] = "\n" THEN os_linesep ELSE <<text[1]>>)
         \o EncodeText(Tail(text))

\* with open(file_path, "r", encoding="utf-8") as f: f.read()
\* exc is the exception raised ("" for none), text is what read() returned
ReadText(fsys, file_path) ==
    IF ~fsys[file_path].exists
    THEN [exc |-> "FileNotFoundError", text |-> <<>>]
    ELSE IF ~Decodable(fsys[file_path].bytes)
         THEN [exc |-> "UnicodeDecodeError", text |-> <<>>]
         ELSE [exc |-> "",
               text |-> UniversalNewlines(fsys[file_path].bytes)]

\* slip: the file is opened with mode "a" and keeps its old contents
WriteText_append(fsys, file_path, text) ==
    IF file_path \notin Writable
    THEN [exc |-> "PermissionError", fs |-> fsys]
    ELSE [exc |-> "",
          fs |-> [fsys EXCEPT ![file_path] =
                     [exists |-> TRUE,
                      bytes |-> fsys[file_path].bytes \o EncodeText(text)]]]

\* with open(file_path, "w", encoding="utf-8") as f: f.write(text)
\* exc is the exception raised ("" for none), fs the files afterwards
WriteText(fsys, file_path, text) ==
    IF file_path \notin Writable
    THEN [exc |-> "PermissionError", fs |-> fsys]
    ELSE [exc |-> "",
          fs |-> [fsys EXCEPT ![file_path] =
                     [exists |-> TRUE, bytes |-> EncodeText(text)]]]

NoDialog == [kind |-> "", path |-> ""]
NoIO == [read |-> "", wrote |-> "", error |-> "", raised |-> ""]

\* except Exception as e: every exception the file calls raise is caught;
\* the value is the exception that leaves the handler ("" for none)
ExceptException(exc) == ""

----------------------------------------------------------------------------
(* Slots and helpers *)

\* the editor's text becomes text and textChanged runs _update_preview
textChanged(text) ==
    /\ editor' = text
    /\ preview' = _update_preview(text, ActiveTheme(themes, is_dark_mode))

\* slip: the text is set with the editor's signals blocked
setPlainText_silent(text) ==
    /\ editor' = text
    /\ preview' = preview

\* self.editor.setPlainText(text): emits textChanged
setPlainText(text) == textChanged(text)

\* slip: the theme is picked from the flag's value before the flip
_apply_theme_stale(dark) ==
    /\ styleSheet' = ActiveTheme(themes, ~dark).app_stylesheet
    /\ preview' = _update_preview(editor, ActiveTheme(themes, ~dark))

\* _apply_theme with self.is_dark_mode = dark
_apply_theme(dark) ==
    /\ styleSheet' = ActiveTheme(themes, dark).app_stylesheet
    /\ preview' = _update_preview(editor, ActiveTheme(themes, dark))

\* slip: the slot switches dark mode off instead of flipping it
_toggle_dark_mode_off ==
    /\ is_dark_mode' = FALSE
    /\ checked' = is_dark_mode'
    /\ _apply_theme(is_dark_mode')

_toggle_dark_mode ==
    /\ is_dark_mode' = ~is_dark_mode
    /\ checked' = is_dark_mode'
    /\ _apply_theme(is_dark_mode')

\* slip: the path is bound before the file is read
_open_file_chosen_path_first(file_path) ==
    LET r == ReadText(fs, file_path) IN
    IF r.exc = ""
    THEN /\ setPlainText(r.text)
         /\ current_file_path' = file_path
         /\ windowTitle' = _update_window_title(file_path)
         /\ io' = [NoIO EXCEPT !.read = file_path]
    ELSE /\ io' = [read |-> file_path, wrote |-> "",
                   error |-> "Could not open file: " \o r.exc,
                   raised |-> ExceptException(r.exc)]
         /\ current_file_path' = file_path
         /\ UNCHANGED <<editor, preview, windowTitle>>

\* slip: a successful open does not bind the path
_open_file_chosen_no_path(file_path) ==
    LET r == ReadText(fs, file_path) IN
    IF r.exc = ""
    THEN /\ setPlainText(r.text)
         /\ windowTitle' = _update_window_title(current_file_path)
         /\ io' = [NoIO EXCEPT !.read = file_path]
         /\ UNCHANGED current_file_path
    ELSE /\ io' = [read |-> file_path, wrote |-> "",
                   error |-> "Could not open file: " \o r.exc,
                   raised |-> ExceptException(r.exc)]
         /\ UNCHANGED <<editor, preview, current_file_path, windowTitle>>

\* the body of _open_file once the dialog has returned file_path
_open_file_chosen(file_path) ==
    LET r == ReadText(fs, file_path) IN
    IF r.exc = ""
    THEN /\ setPlainText(r.text)
         /\ current_file_path' = file_path
         /\ windowTitle' = _update_window_title(file_path)
         /\ io' = [NoIO EXCEPT !.read = file_path]
    ELSE /\ io' = [read |-> file_path, wrote |-> "",
                   error |-> "Could not open file: " \o r.exc,
                   raised |-> ExceptException(r.exc)]
         /\ UNCHANGED <<editor, preview, current_file_path, windowTitle>>

_open_file ==
    \E file_path \in DialogResults :
        /\ dialog' = [kind |-> "getOpenFileName", path |-> file_path]
        /\ IF Truthy(file_path)
           THEN _open_file_chosen(file_path)
           ELSE /\ io' = NoIO
                /\ UNCHANGED <<editor, preview, current_file_path,
                               windowTitle>>

\* slip: the path and the title are bound before the write is tried
_save_logic_rebind_first(file_path) ==
    LET w == WriteText(fs, file_path, editor) IN
    /\ fs' = w.fs
    /\ current_file_path' = file_path
    /\ windowTitle' = _update_window_title(file_path)
    /\ io' = IF w.exc = ""
             THEN [NoIO EXCEPT !.wrote = file_path]
             ELSE [read |-> "", wrote |-> file_path,
                   error |-> "Could not save file: " \o w.exc,
                   raised |-> ExceptException(w.exc)]

_save_logic(file_path) ==
    LET w == WriteText(fs, file_path, editor) IN
    IF w.exc = ""
    THEN /\ fs' = w.fs
         /\ current_file_path' = file_path
         /\ windowTitle' = _update_window_title(file_path)
         /\ io' = [NoIO EXCEPT !.wrote = file_path]
    ELSE /\ fs' = w.fs
         /\ io' = [read |-> "", wrote |-> file_path,
                   error |-> "Could not save file: " \o w.exc,
                   raised |-> ExceptException(w.exc)]
         /\ UNCHANGED <<current_file_path, windowTitle>>

\* slip: the dialog's result is not tested before it is saved to
_save_file_as_unchecked ==
    \E file_path \in DialogResults :
        /\ dialog' = [kind |-> "getSaveFileName", path |-> file_path]
        /\ _save_logic(file_path)

_save_file_as ==
    \E file_path \in DialogResults :
        /\ dialog' = [kind |-> "getSaveFileName", path |-> file_path]
        /\ IF Truthy(file_path)
           THEN _save_logic(file_path)
           ELSE /\ io' = NoIO
                /\ UNCHANGED <<fs, current_file_path, windowTitle>>

\* slip: Save always asks for a path
_save_file_always_asks ==
    _save_file_as

_save_file ==
    IF Truthy(current_file_path)
    THEN /\ dialog' = NoDialog
         /\ _save_logic(current_file_path)
    ELSE _save_file_as

----------------------------------------------------------------------------
(* History *)

ThemeState == [is_dark_mode |-> is_dark_mode, styleSheet |-> styleSheet,
               preview |-> preview]

\* a Save As that wrote a path stands until the next write of that path
SavedAsNext ==
    IF io'.wrote # "" /\ io'.error = ""
    THEN [savedAs EXCEPT ![io'.wrote] =
             IF dialog'.kind = "getSaveFileName" THEN <<editor>> ELSE <<>>]
    ELSE savedAs

----------------------------------------------------------------------------
(* The state after MarkdownViewer(config) *)

Init ==
    /\ \E HtmlFormatter \in BOOLEAN : themes = _create_themes(HtmlFormatter)
    /\ current_file_path = None
    /\ is_dark_mode = TRUE
    /\ checked = is_dark_mode
    /\ styleSheet = ActiveTheme(themes, is_dark_mode).app_stylesheet
    /\ editor = Placeholder
    /\ preview = _update_preview(Placeholder,
                                 ActiveTheme(themes, is_dark_mode))
    /\ windowTitle = _update_window_title(current_file_path)
    /\ fs = InitialFs
    /\ slot = "__init__"
    /\ dialog = NoDialog
    /\ io = NoIO
    /\ savedAs = [p \in Paths |-> <<>>]
    /\ beforeToggles = <<>>

(* The events of the window *)

\* the user changes the text of the editor
Edit ==
    /\ \E text \in Texts : text # editor /\ textChanged(text)
    /\ slot' = "_update_preview"
    /\ dialog' = NoDialog
    /\ io' = NoIO
    /\ beforeToggles' = <<>>
    /\ UNCHANGED <<current_file_path, is_dark_mode, checked, styleSheet,
                   windowTitle, themes, fs, savedAs>>

\* View > Dark Mode
ToggleDarkMode ==
    /\ _toggle_dark_mode
    /\ slot' = "_toggle_dark_mode"
    /\ dialog' = NoDialog
    /\ io' = NoIO
    /\ beforeToggles' = IF beforeToggles = <<>>
                        THEN <<ThemeState>>
                        ELSE <<beforeToggles[Len(beforeToggles)], ThemeState>>
    /\ UNCHANGED <<editor, current_file_path, windowTitle, themes, fs,
                   savedAs>>

\* File > Open...
OpenFile ==
    /\ _open_file
    /\ slot' = "_open_file"
    /\ beforeToggles' = <<>>
    /\ UNCHANGED <<is_dark_mode, checked, styleSheet, themes, fs, savedAs>>

\* File > Save
SaveFile ==
    /\ _save_file
    /\ slot' = "_save_file"
    /\ savedAs' = SavedAsNext
    /\ beforeToggles' = <<>>
    /\ UNCHANGED <<editor, preview, is_dark_mode, checked, styleSheet,
                   themes>>

\* File > Save As...
SaveFileAs ==
    /\ _save_file_as
    /\ slot' = "_save_file_as"
    /\ savedAs' = SavedAsNext
    /\ beforeToggles' = <<>>
    /\ UNCHANGED <<editor, preview, is_dark_mode, checked, styleSheet,
                   themes>>

Next == Edit \/ ToggleDarkMode \/ OpenFile \/ SaveFile \/ SaveFileAs

Spec == Init /\ [][Next]_vars

----------------------------------------------------------------------------
(* Properties *)

\* what the step's slot was asked to do, in terms of its inputs
OpenStep == slot' = "_open_file"
SaveStep == slot' \in {"_save_file", "_save_file_as"}

\* the path a save step tries to write ("" when the dialog was cancelled)
SaveTarget ==
    IF slot' = "_save_file" /\ current_file_path # None
    THEN current_file_path
    ELSE dialog'.path

\* the file system lets the path be read as UTF-8 text / be written
CanRead(p) ==
    /\ fs[p].exists
    /\ \A i \in 1..Len(fs[p].bytes) : fs[p].bytes[i] # "0xFF"
CanWrite(p) == p \in Writable

TitleOf(path) == path \o " - Joe's Markdown Viewer"

\* C1: after every event the preview is the rendering of the editor's
\* current text under the theme the dark-mode flag selects.
NoStalePreview ==
    preview = _update_preview(editor,
                  IF is_dark_mode THEN themes.dark_theme
                                  ELSE themes.light_theme)

NoStalePreviewWitness ==
    /\ slot = "_open_file"
    /\ io.read = "notes.md"
    /\ io.error = ""
    /\ ~is_dark_mode
    /\ editor = <<"a", "\n", "a", "\n">>

\* C2: an open whose read fails shows an error dialog, lets no exception
\* out, and leaves path, editor text, title and preview as they were.
OpenFailureKeepsState ==
    [][(OpenStep /\ dialog'.path # "" /\ ~CanRead(dialog'.path))
          => /\ io'.raised = ""
             /\ io'.error # ""
             /\ current_file_path' = current_file_path
             /\ editor' = editor
             /\ windowTitle' = windowTitle
             /\ preview' = preview]_vars

OpenFailureWitness ==
    /\ slot = "_open_file"
    /\ io.read = "locked.md"
    /\ io.error = "Could not open file: UnicodeDecodeError"
    /\ current_file_path = "new.md"
    /\ editor = <<"a", "\n">>

\* C3: a save that attempts a write sets the path and the title to the
\* written path exactly when the write does not raise; when it raises an
\* error dialog is shown, nothing escapes, and path and title are kept.
SaveRebindsOnlyAfterWrite ==
    [][(SaveStep /\ SaveTarget # "")
          => IF CanWrite(SaveTarget)
             THEN /\ fs'[SaveTarget] =
                        [exists |-> TRUE, bytes |-> EncodeText(editor)]
                  /\ current_file_path' = SaveTarget
                  /\ windowTitle' = TitleOf(SaveTarget)
                  /\ io'.error = ""
             ELSE /\ io'.error # ""
                  /\ io'.raised = ""
                  /\ current_file_path' = current_file_path
                  /\ windowTitle' = windowTitle]_vars

SaveFailureWitness ==
    /\ slot = "_save_file_as"
    /\ dialog.path = "locked.md"
    /\ io.error = "Could not save file: PermissionError"
    /\ current_file_path = "new.md"
    /\ windowTitle = "new.md - Joe's Markdown Viewer"

\* C4: with a current path, Save presents no dialog and its write is of
\* the editor's text to exactly that path; without one, Save is a step of
\* Save As.
SaveFileDispatch ==
    [][(slot' = "_save_file")
          => IF current_file_path # None
             THEN /\ dialog'.kind = ""
                  /\ io'.wrote = current_file_path
                  /\ \A q \in Paths \ {current_file_path} : fs'[q] = fs[q]
                  /\ io'.error = "" =>
                        fs'[current_file_path] =
                           [exists |-> TRUE, bytes |-> EncodeText(editor)]
             ELSE /\ dialog'.kind = "getSaveFileName"
                  /\ _save_file_as
                  /\ \A q \in Paths \ {dialog'.path} : fs'[q] = fs[q]]_vars

SaveFileDirectWitness ==
    /\ slot = "_save_file"
    /\ dialog = NoDialog
    /\ current_file_path = "new.md"
    /\ io.wrote = "new.md"
    /\ io.error = ""
    /\ fs["new.md"].bytes = <<"a", "\n">>

\* C5: the current path is unset at startup, becomes the path of each
\* successful open or save, is left alone by every other event, and is
\* never unset again.
PathFollowsLastSuccess ==
    /\ current_file_path = None
    /\ [][/\ IF OpenStep /\ dialog'.path # "" /\ CanRead(dialog'.path)
             THEN current_file_path' = dialog'.path
             ELSE IF SaveStep /\ SaveTarget # "" /\ CanWrite(SaveTarget)
                  THEN current_file_path' = SaveTarget
                  ELSE current_file_path' = current_file_path
          /\ current_file_path # None => current_file_path' # None]_vars

PathKeptWitness ==
    /\ current_file_path = "notes.md"
    /\ slot = "_save_file_as"
    /\ dialog.path = "locked.md"
    /\ io.error # ""
    /\ fs["new.md"].exists

\* C6: the window title is "<path> - <configured title>" when a path is
\* set and the configured title alone otherwise.
TitleMatchesPath ==
    windowTitle = IF current_file_path = None
                  THEN "Joe's Markdown Viewer"
                  ELSE TitleOf(current_file_path)

TitleWitness ==
    /\ slot = "_open_file"
    /\ io.error # ""
    /\ current_file_path = "new.md"
    /\ windowTitle = "new.md - Joe's Markdown Viewer"

\* C7: a successful open of a path whose last write was a successful
\* Save As of text T leaves the editor holding T and the path current.
SaveAsOpenRoundTrip ==
    (/\ slot = "_open_file"
     /\ io.read # ""
     /\ io.error = ""
     /\ savedAs[io.read] # <<>>)
        => /\ editor = savedAs[io.read][1]
           /\ current_file_path = io.read

RoundTripWitness ==
    /\ slot = "_open_file"
    /\ io.read = "new.md"
    /\ io.error = ""
    /\ savedAs["new.md"] = << <<"\n", "a">> >>
    /\ editor = <<"\n", "a">>

\* C8: two toggles in a row bring the flag, the chrome stylesheet and the
\* preview back to what they were before the first.
ToggleTwiceRestores ==
    Len(beforeToggles) = 2
        => /\ is_dark_mode = beforeToggles[1].is_dark_mode
           /\ styleSheet = beforeToggles[1].styleSheet
           /\ preview = beforeToggles[1].preview

ToggleTwiceWitness ==
    /\ slot = "_toggle_dark_mode"
    /\ Len(beforeToggles) = 2
    /\ beforeToggles[1].is_dark_mode = FALSE
    /\ beforeToggles[2].is_dark_mode = TRUE
    /\ beforeToggles[2].preview # beforeToggles[1].preview
    /\ editor = <<"a">>

\* C9: the flag starts Dark; a toggle flips it, applies the new theme's
\* chrome stylesheet and renders the preview again; nothing else changes
\* the flag or the stylesheet; the stylesheet always matches the flag.
DarkModeMachine ==
    /\ is_dark_mode = TRUE
    /\ [][IF slot' = "_toggle_dark_mode"
          THEN /\ is_dark_mode' = ~is_dark_mode
               /\ styleSheet' = IF is_dark_mode
                                THEN "light_app_stylesheet"
                                ELSE "dark_app_stylesheet"
               /\ preview' = _update_preview(editor,
                                 IF is_dark_mode THEN themes.light_theme
                                                 ELSE themes.dark_theme)
          ELSE /\ is_dark_mode' = is_dark_mode
               /\ styleSheet' = styleSheet]_vars
    /\ [](styleSheet = IF is_dark_mode THEN "dark_app_stylesheet"
                                       ELSE "light_app_stylesheet")

DarkModeWitness ==
    /\ slot = "_save_file"
    /\ io.error = ""
    /\ io.wrote = "new.md"
    /\ ~is_dark_mode
    /\ styleSheet = "light_app_stylesheet"

\* C10: when the file dialog returns no path nothing is read or written,
\* no error dialog is shown, and text, path, title, flag and preview stay.
CancelledDialogIsNoOp ==
    [][(dialog'.kind # "" /\ dialog'.path = "")
          => /\ io' = NoIO
             /\ fs' = fs
             /\ editor' = editor
             /\ current_file_path' = current_file_path
             /\ windowTitle' = windowTitle
             /\ is_dark_mode' = is_dark_mode
             /\ preview' = preview]_vars

CancelWitness ==
    /\ slot = "_save_file"
    /\ dialog = [kind |-> "getSaveFileName", path |-> ""]
    /\ io = NoIO
    /\ current_file_path = None
    /\ editor = <<"a">>

====
